---------------------------- MODULE Spec2Model ----------------------------
(***************************************************************************)
(* Block rewards and difficulty retargeting of the ledger                  *)
(* (vm/compiler/src/ledger/helpers/mod.rs).                                *)
(*                                                                         *)
(* The Rust code computes in u64, i64, u128 and i128.  TLC's integers are  *)
(* 32 bits wide, so every machine integer of the program is carried here   *)
(* as a little-endian sequence of limbs in base 2^8, without leading zero  *)
(* limbs (the number 0 is the empty sequence).  Signed values are records  *)
(* [neg, mag].  Widths are applied where the code applies them: a          *)
(* saturating operation clamps, a checked operation reports None, an `as`  *)
(* cast keeps the low bits.                                                *)
(***************************************************************************)
EXTENDS Integers, Sequences, FiniteSets, TLC

-----------------------------------------------------------------------------
(* Unsigned arithmetic on limb sequences.                                   *)

\* Width of a limb in bits.  Only the representation depends on it: every
\* result below is the same number for any width whose limb products fit TLC's
\* integers.
LimbBits == 8
Base == 2^LimbBits

Limb(a, i) == IF i <= Len(a) THEN a[i] ELSE 0

\* F applied to the value v: how a `let` of the code is written, so that the
\* value is computed once however often F uses it.
With(v, F(_)) == F(v)

RECURSIVE Norm(_)
Norm(a) ==
    IF a = <<>> THEN a
    ELSE IF a[Len(a)] = 0 THEN Norm(SubSeq(a, 1, Len(a) - 1)) ELSE a

RECURSIVE Big(_)
Big(n) == IF n = 0 THEN <<>> ELSE <<n % Base>> \o Big(n \div Base)

RECURSIVE ToInt(_)
ToInt(a) == IF a = <<>> THEN 0 ELSE a[1] + Base * ToInt(Tail(a))

RECURSIVE CmpFrom(_, _, _)
CmpFrom(a, b, i) ==
    IF i = 0 THEN 0
    ELSE IF a[i] < b[i] THEN -1
    ELSE IF a[i] > b[i] THEN 1
    ELSE CmpFrom(a, b, i - 1)

Cmp(a, b) ==
    IF Len(a) < Len(b) THEN -1
    ELSE IF Len(a) > Len(b) THEN 1
    ELSE CmpFrom(a, b, Len(a))

Lt(a, b) == Cmp(a, b) < 0
Le(a, b) == Cmp(a, b) <= 0
MaxB(a, b) == IF Lt(a, b) THEN b ELSE a
MinB(a, b) == IF Lt(b, a) THEN b ELSE a

RECURSIVE AddC(_, _, _, _)
AddC(a, b, i, c) ==
    IF i > Len(a) /\ i > Len(b)
    THEN IF c = 0 THEN <<>> ELSE <<c>>
    ELSE LET s == Limb(a, i) + Limb(b, i) + c
         IN  <<s % Base>> \o AddC(a, b, i + 1, s \div Base)

Add(a, b) == AddC(a, b, 1, 0)

RECURSIVE SubC(_, _, _, _)
SubC(a, b, i, c) ==
    IF i > Len(a) THEN <<>>
    ELSE LET s == a[i] - Limb(b, i) - c
         IN  IF s < 0 THEN <<s + Base>> \o SubC(a, b, i + 1, 1)
                      ELSE <<s>> \o SubC(a, b, i + 1, 0)

\* a - b for a >= b
Sub(a, b) == Norm(SubC(a, b, 1, 0))

RECURSIVE MulLimbC(_, _, _, _)
MulLimbC(a, m, i, c) ==
    IF i > Len(a)
    THEN IF c = 0 THEN <<>> ELSE <<c>>
    ELSE LET s == a[i] * m + c
         IN  <<s % Base>> \o MulLimbC(a, m, i + 1, s \div Base)

MulLimb(a, m) == IF m = 0 THEN <<>> ELSE MulLimbC(a, m, 1, 0)

ShiftLimbs(a, n) == IF a = <<>> THEN a ELSE [i \in 1..n |-> 0] \o a

RECURSIVE MulFrom(_, _, _)
MulFrom(a, b, i) ==
    IF i > Len(b) THEN <<>>
    ELSE Add(MulLimb(a, b[i]), ShiftLimbs(MulFrom(a, b, i + 1), 1))

Mul(a, b) == IF a = <<>> THEN <<>> ELSE MulFrom(a, b, 1)

\* a * 2^k, exact
ShL(a, k) == ShiftLimbs(MulLimb(a, 2^(k % LimbBits)), k \div LimbBits)

\* floor(a / 2^k)
ShRBits(d, r) ==
    Norm([i \in 1..Len(d) |->
            (d[i] \div 2^r) + (Limb(d, i + 1) % 2^r) * 2^(LimbBits - r)])

ShR(a, k) ==
    ShRBits(IF k \div LimbBits >= Len(a) THEN <<>>
            ELSE SubSeq(a, k \div LimbBits + 1, Len(a)),
            k % LimbBits)

Pow2(k) == ShL(<<1>>, k)

\* a mod 2^k: the low k bits
Mod2(a, k) == IF Len(a) * LimbBits <= k THEN a ELSE Sub(a, ShL(ShR(a, k), k))

\* The largest digit d < Base with b * d <= r, found bit by bit from the top.
RECURSIVE Digit(_, _, _, _)
Digit(r, b, j, acc) ==
    IF j < 0 THEN acc
    ELSE IF Le(MulLimb(b, acc + 2^j), r) THEN Digit(r, b, j - 1, acc + 2^j)
    ELSE Digit(r, b, j - 1, acc)

\* Long division, one limb of a at a time from the top, with the quotient q and
\* the remainder r of the limbs above limb i: [q, r] with a = q*b + r, r < b.
RECURSIVE DivFrom(_, _, _, _, _)
DivFrom(a, b, i, q, r) ==
    IF i = 0 THEN [q |-> q, r |-> r]
    ELSE With(Norm(<<a[i]>> \o r), LAMBDA r2 :
         With(Digit(r2, b, LimbBits - 1, 0), LAMBDA d :
         With(Sub(r2, MulLimb(b, d)), LAMBDA rest :
              \* (the test makes TLC compute the remainder before it goes on,
              \* which keeps its evaluation stack shallow)
              IF Len(rest) <= Len(b)
              THEN DivFrom(a, b, i - 1, Norm(<<d>> \o q), rest)
              ELSE [q |-> <<>>, r |-> <<>>])))

\* floor(a / b) for b # 0
Div(a, b) == DivFrom(a, b, Len(a), <<>>, <<>>).q

\* A number written in groups of three decimal digits, most significant first.
RECURSIVE Dec(_)
Dec(g) ==
    IF g = <<>> THEN <<>>
    ELSE Add(Mul(Dec(SubSeq(g, 1, Len(g) - 1)), Big(1000)), Big(g[Len(g)]))

-----------------------------------------------------------------------------
(* Signed arithmetic: [neg |-> BOOLEAN, mag |-> limbs]; zero is not negative. *)

Z(neg, mag) == [neg |-> neg /\ mag # <<>>, mag |-> mag]
Int2Z(n) == IF n < 0 THEN Z(TRUE, Big(-n)) ELSE Z(FALSE, Big(n))
ZNeg(x) == Z(~x.neg, x.mag)

ZCmp(x, y) ==
    IF x.neg /\ ~y.neg THEN -1
    ELSE IF ~x.neg /\ y.neg THEN 1
    ELSE IF x.neg THEN Cmp(y.mag, x.mag) ELSE Cmp(x.mag, y.mag)

ZAdd(x, y) ==
    IF x.neg = y.neg THEN Z(x.neg, Add(x.mag, y.mag))
    ELSE IF Le(y.mag, x.mag) THEN Z(x.neg, Sub(x.mag, y.mag))
    ELSE Z(y.neg, Sub(y.mag, x.mag))

ZSub(x, y) == ZAdd(x, ZNeg(y))
ZMul(x, y) == Z(x.neg # y.neg, Mul(x.mag, y.mag))
ZMax(x, y) == IF ZCmp(x, y) < 0 THEN y ELSE x

\* Rust's `/` on signed integers truncates toward zero.
ZDivTrunc(x, y) == Z(x.neg # y.neg, Div(x.mag, y.mag))

\* Rust's `>>` on a signed integer is arithmetic: floor(x / 2^k).
ZShr(x, k) ==
    IF x.neg THEN Z(TRUE, ShR(Add(x.mag, Sub(Pow2(k), <<1>>)), k))
    ELSE Z(FALSE, ShR(x.mag, k))

ZShl(x, k) == Z(x.neg, ShL(x.mag, k))

-----------------------------------------------------------------------------
(* The machine integer types and the operations the code applies to them.   *)

U64Max == Sub(Pow2(64), Big(1))
U128Max == Sub(Pow2(128), Big(1))
I64Max == Z(FALSE, Sub(Pow2(63), Big(1)))
I64Min == Z(TRUE, Pow2(63))
I128Max == Z(FALSE, Sub(Pow2(127), Big(1)))
I128Min == Z(TRUE, Pow2(127))

Some(v) == [some |-> TRUE, val |-> v]
None == [some |-> FALSE, val |-> <<>>]

ZClamp(x, lo, hi) == IF ZCmp(x, lo) < 0 THEN lo ELSE IF ZCmp(x, hi) > 0 THEN hi ELSE x

\* i64::saturating_sub
SaturatingSubI64(x, y) == ZClamp(ZSub(x, y), I64Min, I64Max)

\* i128::saturating_mul
SaturatingMulI128(x, y) == ZClamp(ZMul(x, y), I128Min, I128Max)

\* u128::saturating_mul
SaturatingMulU128(a, b) == MinB(Mul(a, b), U128Max)

\* u64::saturating_sub
SaturatingSubU64(a, b) == IF Le(a, b) THEN <<>> ELSE Sub(a, b)

\* u64::checked_mul
CheckedMulU64(a, b) == With(Mul(a, b), LAMBDA p : IF Le(p, U64Max) THEN Some(p) ELSE None)

\* u64::try_from(u128)
TryFromU64(a) == IF Le(a, U64Max) THEN Some(a) ELSE None

\* `x as uW` for a signed x: the low W bits of the two's complement of x.
AsUnsigned(x, w) ==
    With(Mod2(x.mag, w), LAMBDA m : IF x.neg /\ m # <<>> THEN Sub(Pow2(w), m) ELSE m)

\* The signed W-bit value with the bits of the unsigned u < 2^W.
AsSigned(u, w) == IF Lt(u, Pow2(w - 1)) THEN Z(FALSE, u) ELSE Z(TRUE, Sub(Pow2(w), u))

\* An i128 result that keeps only its low 128 bits (`<<` drops the high ones).
WrapI128(x) == AsSigned(AsUnsigned(x, 128), 128)

\* u128::checked_shr and u128::checked_shl with a u32 amount: None when the
\* amount is 128 or more; otherwise the shift, which for `shl` drops the bits
\* moved past bit 127.
CheckedShrU128(v, amount) ==
    IF Lt(amount, Big(128)) THEN Some(ShR(v, ToInt(amount))) ELSE None

CheckedShlU128(v, amount) ==
    IF Lt(amount, Big(128)) THEN Some(Mod2(ShL(v, ToInt(amount)), 128)) ELSE None

-----------------------------------------------------------------------------
(* retarget                                                                 *)

RBITS == 16
RADIX == Pow2(RBITS)

\* The outcome of a call: a value, an error returned, or a panic.
Ok(v) == [kind |-> "Ok", val |-> v, msg |-> ""]
Err(msg) == [kind |-> "Err", val |-> <<>>, msg |-> msg]
Panic(msg) == [kind |-> "Panic", val |-> <<>>, msg |-> msg]

\* Drift with the two timestamps of the subtraction exchanged.
DriftSwapped(anchor_time, previous_block_timestamp, block_timestamp) ==
    ZSub(ZMax(SaturatingSubI64(previous_block_timestamp, block_timestamp), Int2Z(1)),
         Z(FALSE, anchor_time))

\* Drift without the floor of 1 second under the elapsed time.
DriftUnclamped(anchor_time, previous_block_timestamp, block_timestamp) ==
    ZSub(SaturatingSubI64(block_timestamp, previous_block_timestamp), Z(FALSE, anchor_time))

\* block_time_elapsed - ANCHOR_TIME
Drift(anchor_time, previous_block_timestamp, block_timestamp) ==
    LET block_time_elapsed ==
            ZMax(SaturatingSubI64(block_timestamp, previous_block_timestamp), Int2Z(1))
    IN  ZSub(block_time_elapsed, Z(FALSE, anchor_time))

\* Inverse without the negation.
InverseIgnored(drift, is_inverse) == drift

\* if is_inverse { drift *= -1 }
Inverse(drift, is_inverse) == IF is_inverse THEN ZNeg(drift) ELSE drift

\* The exponent factor for a drift already negated for the inverse flag.
Exponent(num_blocks_per_epoch, drift) ==
    ZDivTrunc(SaturatingMulI128(Z(FALSE, RADIX), drift), Z(FALSE, num_blocks_per_epoch))

\* Integral by a division that rounds toward zero.
IntegralTruncating(exponent) == ZDivTrunc(exponent, Z(FALSE, RADIX))

\* exponent >> RBITS, an arithmetic shift
Integral(exponent) == ZShr(exponent, RBITS)

Fractional(exponent, integral) ==
    AsUnsigned(ZSub(exponent, WrapI128(ZShl(integral, RBITS))), 128)

Coeff1 == Dec(<<195, 766, 423, 245, 49>>)
Coeff2 == Dec(<<971, 821, 376>>)
Coeff3 == Dec(<<5, 127>>)

\* FractionalMultiplier without the square and the cube term.
FractionalMultiplierLinear(fractional) ==
    Add(RADIX, ShR(Add(Mul(Coeff1, fractional), Pow2(RBITS * 3 - 1)), RBITS * 3))

\* 2^RBITS * 2^(fractional / 2^RBITS), by the cubic approximation
FractionalMultiplier(fractional) ==
    LET f2 == Mul(fractional, fractional)
        f3 == Mul(f2, fractional)
    IN  Add(RADIX,
            ShR(Add(Add(Mul(Coeff1, fractional), Mul(Coeff2, f2)),
                    Add(Mul(Coeff3, f3), Pow2(RBITS * 3 - 1))),
                RBITS * 3))

\* The shift of the candidate by `integral - RBITS`, floored at 1 or saturated.
Shifted(candidate_target, shifts) ==
    IF shifts.neg
    THEN With(CheckedShrU128(candidate_target, AsUnsigned(ZNeg(shifts), 32)),
              LAMBDA r : IF r.some THEN MaxB(r.val, Big(1)) ELSE Big(1))
    ELSE With(CheckedShlU128(candidate_target, AsUnsigned(shifts, 32)),
              LAMBDA l : IF l.some THEN MaxB(l.val, Big(1)) ELSE U64Max)

\* The locals of a run that got past the decomposition of the exponent.
Locals(drift, exponent, integral, fractional, fractional_multiplier, out) ==
    [drift |-> drift, exponent |-> exponent, integral |-> integral,
     fractional |-> fractional, fractional_multiplier |-> fractional_multiplier,
     shifts |-> ZSub(integral, Int2Z(RBITS)), out |-> out]

\* The locals of one run of retarget and its outcome.
RetargetRun(anchor_time, num_blocks_per_epoch, previous_target, previous_block_timestamp, block_timestamp, is_inverse) ==
    With(Drift(anchor_time, previous_block_timestamp, block_timestamp), LAMBDA drift0 :
    IF drift0.mag = <<>> THEN [drift |-> drift0, out |-> Ok(previous_target)]
    ELSE
    With(Inverse(drift0, is_inverse), LAMBDA drift :
    With(Exponent(num_blocks_per_epoch, drift), LAMBDA exponent :
    With(Integral(exponent), LAMBDA integral :
    With(Fractional(exponent, integral), LAMBDA fractional :
    IF ~Lt(fractional, RADIX)
    THEN Locals(drift, exponent, integral, fractional, <<>>,
                Panic("Ensure fractional part is within fixed point size"))
    ELSE IF exponent # ZAdd(ZMul(integral, Z(FALSE, RADIX)), AsSigned(fractional, 128))
    THEN Locals(drift, exponent, integral, fractional, <<>>,
                Panic("assertion failed: exponent == integral * RADIX + fractional"))
    ELSE
    With(FractionalMultiplier(fractional), LAMBDA fractional_multiplier :
    With(MinB(Shifted(SaturatingMulU128(previous_target, fractional_multiplier),
                      ZSub(integral, Int2Z(RBITS))),
              U64Max), LAMBDA candidate_target :
    Locals(drift, exponent, integral, fractional, fractional_multiplier,
           IF CheckedShrU128(candidate_target, Big(64)) = Some(<<>>)
           THEN Ok(candidate_target)
           ELSE Panic("assertion failed: candidate_target.checked_shr(64) == Some(0)"))
    )))))))

retarget(anchor_time, num_blocks_per_epoch, previous_target, previous_block_timestamp, block_timestamp, is_inverse) ==
    RetargetRun(anchor_time, num_blocks_per_epoch, previous_target,
                previous_block_timestamp, block_timestamp, is_inverse).out

-----------------------------------------------------------------------------
(* Rewards and targets                                                      *)

SECONDS_IN_A_YEAR == 31536000

DivideByZero == Panic("attempt to divide by zero")

estimated_block_height(anchor_time, num_years) ==
    IF anchor_time = <<>> THEN DivideByZero
    ELSE Ok(Mul(Div(Big(SECONDS_IN_A_YEAR), anchor_time), Big(num_years)))

\* u64::try_from(..)?, wrapped in Ok
TryOk(v) == IF TryFromU64(v).some THEN Ok(v) ELSE Err("TryFromIntError")

staking_reward(STARTING_SUPPLY, ANCHOR_TIME) ==
    With(estimated_block_height(ANCHOR_TIME, 1), LAMBDA block_height_around_year_1 :
    IF block_height_around_year_1.kind = "Panic" THEN block_height_around_year_1
    ELSE IF block_height_around_year_1.val = <<>> THEN DivideByZero
    ELSE With(Div(Div(Mul(STARTING_SUPPLY, Big(25)), Big(1000)),
                  block_height_around_year_1.val), TryOk))

\* anchor_reward with the years of the height estimate taken as the anchor time.
AnchorRewardPerYear(STARTING_SUPPLY, ANCHOR_TIME) ==
    With(Mul(Big(2), STARTING_SUPPLY), LAMBDA numerator :
    With(Mul(ANCHOR_TIME, Add(ANCHOR_TIME, Big(1))), LAMBDA denominator :
    IF denominator = <<>> THEN DivideByZero
    ELSE With(Div(numerator, denominator), TryOk)))

\* anchor_reward with the denominator H_Y10 in place of H_Y10 * (H_Y10 + 1).
AnchorRewardUnsquared(STARTING_SUPPLY, ANCHOR_TIME) ==
    With(estimated_block_height(ANCHOR_TIME, 10), LAMBDA block_height_around_year_10 :
    IF block_height_around_year_10.kind = "Panic" THEN block_height_around_year_10
    ELSE IF block_height_around_year_10.val = <<>> THEN DivideByZero
    ELSE With(Div(Mul(Big(2), STARTING_SUPPLY), block_height_around_year_10.val), TryOk))

anchor_reward(STARTING_SUPPLY, ANCHOR_TIME) ==
    With(estimated_block_height(ANCHOR_TIME, 10), LAMBDA block_height_around_year_10 :
    IF block_height_around_year_10.kind = "Panic" THEN block_height_around_year_10
    ELSE
    With(Mul(Big(2), STARTING_SUPPLY), LAMBDA numerator :
    With(Mul(block_height_around_year_10.val,
             Add(block_height_around_year_10.val, Big(1))), LAMBDA denominator :
    IF denominator = <<>> THEN DivideByZero
    ELSE With(Div(numerator, denominator), TryOk))))

\* No run of retarget took place.
NoRun == [out |-> Ok(<<>>)]

\* coinbase_reward: the product it decays (when it got that far), the run of
\* retarget (if any) and the outcome.
CoinbaseRewardRun(STARTING_SUPPLY, ANCHOR_TIME, NUM_BLOCKS_PER_EPOCH, previous_timestamp, timestamp, block_height) ==
    With(estimated_block_height(ANCHOR_TIME, 10), LAMBDA block_height_around_year_10 :
    IF block_height_around_year_10.kind = "Panic"
    THEN [product |-> None, run |-> NoRun, out |-> block_height_around_year_10]
    ELSE
    With(MaxB(SaturatingSubU64(block_height_around_year_10.val, block_height), <<>>),
         LAMBDA max :
    With(anchor_reward(STARTING_SUPPLY, ANCHOR_TIME), LAMBDA anchor :
    IF anchor.kind # "Ok" THEN [product |-> None, run |-> NoRun, out |-> anchor]
    ELSE
    With(CheckedMulU64(max, anchor.val), LAMBDA product :
    IF ~product.some
    THEN [product |-> product, run |-> NoRun, out |-> Err("Anchor reward overflow")]
    ELSE IF product.val = <<>>
    THEN [product |-> product, run |-> NoRun, out |-> Ok(<<>>)]
    ELSE With(RetargetRun(ANCHOR_TIME, NUM_BLOCKS_PER_EPOCH, product.val,
                          previous_timestamp, timestamp, TRUE),
              LAMBDA run : [product |-> product, run |-> run, out |-> run.out])))))

coinbase_reward(STARTING_SUPPLY, ANCHOR_TIME, NUM_BLOCKS_PER_EPOCH, previous_timestamp, timestamp, block_height) ==
    CoinbaseRewardRun(STARTING_SUPPLY, ANCHOR_TIME, NUM_BLOCKS_PER_EPOCH,
                      previous_timestamp, timestamp, block_height).out

\* (1u64 << 10).saturating_sub(1)
MinimumCoinbaseTarget == SaturatingSubU64(Mod2(ShL(Big(1), 10), 64), Big(1))

\* FloorTarget without the floor.
FloorTargetNone(candidate_target) == candidate_target

\* The floor coinbase_target puts under the candidate of retarget.
FloorTarget(candidate_target) == MaxB(MinimumCoinbaseTarget, candidate_target)

CoinbaseTargetRun(ANCHOR_TIME, NUM_BLOCKS_PER_EPOCH, previous_coinbase_target, previous_block_timestamp, block_timestamp) ==
    With(RetargetRun(ANCHOR_TIME, NUM_BLOCKS_PER_EPOCH, previous_coinbase_target,
                     previous_block_timestamp, block_timestamp, TRUE),
         LAMBDA run :
            [run |-> run,
             out |-> IF run.out.kind = "Ok" THEN Ok(FloorTarget(run.out.val))
                     ELSE run.out])

coinbase_target(ANCHOR_TIME, NUM_BLOCKS_PER_EPOCH, previous_coinbase_target, previous_block_timestamp, block_timestamp) ==
    CoinbaseTargetRun(ANCHOR_TIME, NUM_BLOCKS_PER_EPOCH, previous_coinbase_target,
                      previous_block_timestamp, block_timestamp).out

\* u64::checked_shr with a u32 amount given as a number
CheckedShrU64(v, amount) == IF amount < 64 THEN Some(ShR(v, amount)) ELSE None

\* coinbase_target.checked_shr(10).unwrap_or(0)
proof_target(target) ==
    With(CheckedShrU64(target, 10), LAMBDA r : IF r.some THEN r.val ELSE <<>>)

-----------------------------------------------------------------------------
(* The inputs: networks (the const generics of the functions), targets,     *)
(* heights and timestamps.                                                  *)

\* The small block intervals tried, in seconds: -1 .. MaxOffset.
MaxOffset == 3

Network(supply, anchor, epoch, genesis) ==
    [STARTING_SUPPLY |-> supply, ANCHOR_TIME |-> anchor,
     NUM_BLOCKS_PER_EPOCH |-> epoch, GENESIS_TIMESTAMP |-> genesis]

U32Max == Sub(Pow2(32), Big(1))

\* The supply and anchor time the tests pin (anchor reward 8, staking reward
\* 17440385), a toy network, and networks at the edges of the parameter types.
Networks ==
    { Network(Dec(<<1, 100, 0, 0, 0, 0>>), Big(20), Big(256), Int2Z(1663718400)),
      Network(U64Max, Big(10), Big(10), Int2Z(0)),
      Network(U64Max, Big(1), Big(1), Int2Z(0)),
      Network(U64Max, Big(128), Big(1), Int2Z(1663718400)),
      Network(Dec(<<1, 100, 0, 0, 0, 0>>), Big(2), Pow2(16), Int2Z(0)),
      Network(Big(54), Dec(<<15, 768, 0>>), U32Max, Int2Z(0)),
      Network(<<>>, Big(SECONDS_IN_A_YEAR), Big(3), Int2Z(0)),
      Network(U64Max, Big(SECONDS_IN_A_YEAR + 1), Big(256), Int2Z(1663718400)),
      Network(U64Max, Big(SECONDS_IN_A_YEAR), Big(1), Int2Z(0)) }

PreviousTargets ==
    { <<>>, Big(1), MinimumCoinbaseTarget, Big(1024), Pow2(20),
      Add(Pow2(40), Big(12345)), Sub(U64Max, Big(1)), U64Max }

InI64(x) == ZCmp(I64Min, x) <= 0 /\ ZCmp(x, I64Max) <= 0

\* Block intervals: the small ones, those around the anchor time, one epoch
\* and 64 epochs late, and intervals of 2^32 - 16 and 2^32 epochs and of the
\* whole i64 range.
Offsets(n) ==
    LET A == Z(FALSE, n.ANCHOR_TIME)
        E == Z(FALSE, n.NUM_BLOCKS_PER_EPOCH)
    IN  { Int2Z(d) : d \in -1..MaxOffset }
        \cup { ZAdd(A, Int2Z(d)) : d \in -1..1 }
        \cup { Z(FALSE, ShR(n.ANCHOR_TIME, 1)), ZAdd(A, A), ZAdd(A, E),
               ZAdd(A, ZMul(E, Int2Z(64))),
               ZAdd(A, ZMul(E, Z(FALSE, Sub(Pow2(32), Big(16))))),
               ZAdd(A, ZMul(E, Z(FALSE, Pow2(32)))),
               I64Max }

\* <<previous_timestamp, timestamp>>: an interval after the epoch, after the
\* genesis block and after the least timestamp; the two ends of i64.
TimestampPairs(n) ==
    UNION { { <<p, ZAdd(p, o)>> : o \in {x \in Offsets(n) : InI64(ZAdd(p, x))} } :
            p \in {Int2Z(0), n.GENESIS_TIMESTAMP, I64Min} }
    \cup { <<I64Max, I64Max>>, <<I64Max, I64Min>>, <<I64Min, I64Max>>,
           <<ZSub(I64Max, Int2Z(1)), I64Min>> }

BlockHeights(n) ==
    LET h == estimated_block_height(n.ANCHOR_TIME, 10).val
    IN  { <<>>, Big(1), h, Add(h, Big(1)), MulLimb(h, 10), U64Max }
        \cup (IF h = <<>> THEN {} ELSE {Sub(h, Big(1)), ShR(h, 1)})

-----------------------------------------------------------------------------
(* The state: the network, the call made last with its arguments, locals    *)
(* and outcome, and the probing loop of the reward schedule.                *)

VARIABLES
    network,            \* the const generics every call is instantiated with
    fn,                 \* the function called last, "idle" between calls
    args,               \* its arguments
    locals,             \* the locals of the run of retarget it made
    ret,                \* its outcome: Ok, Err or Panic
    pc,                 \* the probing loop of the reward schedule: "start",
                        \* "loop", "done", "panicked", "assert_failed"
    block_height, previous_timestamp, timestamp,
    reward,             \* the reward of the probe made last
    previous_reward     \* the reward the next probe is compared with

callVars == <<fn, args, locals, ret>>
loopVars == <<pc, block_height, previous_timestamp, timestamp, reward, previous_reward>>
vars == <<network, fn, args, locals, ret, pc, block_height, previous_timestamp,
          timestamp, reward, previous_reward>>

NoArgs == [none |-> TRUE]

Init ==
    /\ network \in Networks
    /\ fn = "idle"
    /\ args = NoArgs
    /\ locals = NoRun
    /\ ret = Ok(<<>>)
    /\ pc = "start"
    /\ block_height = Big(1)
    /\ previous_timestamp = network.GENESIS_TIMESTAMP
    /\ timestamp = network.GENESIS_TIMESTAMP
    /\ reward = Ok(<<>>)
    /\ previous_reward = Ok(<<>>)

Idle == fn = "idle" /\ pc = "start"

StakingReward ==
    /\ Idle
    /\ fn' = "staking_reward"
    /\ args' = NoArgs
    /\ locals' = NoRun
    /\ ret' = staking_reward(network.STARTING_SUPPLY, network.ANCHOR_TIME)
    /\ UNCHANGED <<network, loopVars>>

AnchorReward ==
    /\ Idle
    /\ fn' = "anchor_reward"
    /\ args' = NoArgs
    /\ locals' = NoRun
    /\ ret' = anchor_reward(network.STARTING_SUPPLY, network.ANCHOR_TIME)
    /\ UNCHANGED <<network, loopVars>>

CoinbaseReward ==
    /\ Idle
    /\ \E t \in TimestampPairs(network), h \in BlockHeights(network) :
          \E r \in {CoinbaseRewardRun(network.STARTING_SUPPLY, network.ANCHOR_TIME,
                                      network.NUM_BLOCKS_PER_EPOCH, t[1], t[2], h)} :
              /\ fn' = "coinbase_reward"
              /\ args' = [previous_timestamp |-> t[1], timestamp |-> t[2],
                          block_height |-> h]
              /\ locals' = r.run
              /\ ret' = r.out
    /\ UNCHANGED <<network, loopVars>>

CoinbaseTarget ==
    /\ Idle
    /\ \E t \in TimestampPairs(network), target \in PreviousTargets :
          \E r \in {CoinbaseTargetRun(network.ANCHOR_TIME, network.NUM_BLOCKS_PER_EPOCH,
                                      target, t[1], t[2])} :
              /\ fn' = "coinbase_target"
              /\ args' = [previous_coinbase_target |-> target,
                          previous_block_timestamp |-> t[1], block_timestamp |-> t[2]]
              /\ locals' = r.run
              /\ ret' = r.out
    /\ UNCHANGED <<network, loopVars>>

\* retarget itself, with either value of the inverse flag.
Retarget ==
    /\ Idle
    /\ \E t \in TimestampPairs(network),
          target \in {Big(1), Big(1024), U64Max}, is_inverse \in BOOLEAN :
          \E r \in {RetargetRun(network.ANCHOR_TIME, network.NUM_BLOCKS_PER_EPOCH,
                                target, t[1], t[2], is_inverse)} :
              /\ fn' = "retarget"
              /\ args' = [previous_target |-> target,
                          previous_block_timestamp |-> t[1], block_timestamp |-> t[2],
                          is_inverse |-> is_inverse]
              /\ locals' = r
              /\ ret' = r.out
    /\ UNCHANGED <<network, loopVars>>

ProofTarget ==
    /\ Idle
    /\ \E target \in PreviousTargets :
          /\ fn' = "proof_target"
          /\ args' = [coinbase_target |-> target]
          /\ locals' = NoRun
          /\ ret' = Ok(proof_target(target))
    /\ UNCHANGED <<network, loopVars>>

\* The proof targets derived from the previous coinbase target and from the
\* one coinbase_target just returned, as in tests::test_targets.
ProofTargets ==
    /\ fn = "coinbase_target"
    /\ ret.kind = "Ok"
    /\ fn' = "proof_targets"
    /\ ret' = [new_coinbase_target |-> ret.val,
               previous_prover_target |-> proof_target(args.previous_coinbase_target),
               new_prover_target |-> proof_target(ret.val)]
    /\ UNCHANGED <<network, args, locals, loopVars>>

\* tests::test_anchor_reward and tests::test_staking_reward: the reward of the
\* network and of the networks with ANCHOR_TIME + 1 and ANCHOR_TIME - 1.
TestAnchorReward ==
    /\ Idle
    /\ fn' = "test_anchor_reward"
    /\ args' = NoArgs
    /\ locals' = NoRun
    /\ ret' = [reward |-> anchor_reward(network.STARTING_SUPPLY, network.ANCHOR_TIME),
               larger_reward |-> anchor_reward(network.STARTING_SUPPLY, Add(network.ANCHOR_TIME, Big(1))),
               smaller_reward |-> anchor_reward(network.STARTING_SUPPLY, Sub(network.ANCHOR_TIME, Big(1)))]
    /\ UNCHANGED <<network, loopVars>>

TestStakingReward ==
    /\ Idle
    /\ fn' = "test_staking_reward"
    /\ args' = NoArgs
    /\ locals' = NoRun
    /\ ret' = [reward |-> staking_reward(network.STARTING_SUPPLY, network.ANCHOR_TIME),
               larger_reward |-> staking_reward(network.STARTING_SUPPLY, Add(network.ANCHOR_TIME, Big(1))),
               smaller_reward |-> staking_reward(network.STARTING_SUPPLY, Sub(network.ANCHOR_TIME, Big(1)))]
    /\ UNCHANGED <<network, loopVars>>

\* The call is over and its outcome dropped.
Return ==
    /\ fn # "idle"
    /\ fn' = "idle"
    /\ args' = NoArgs
    /\ locals' = NoRun
    /\ ret' = Ok(<<>>)
    /\ UNCHANGED <<network, loopVars>>

-----------------------------------------------------------------------------
(* tests::test_coinbase_reward: the probes of the reward at heights 1, 2,   *)
(* 4, ... below the estimated height of year 10.                           *)

\* GENESIS_TIMESTAMP + block_height as i64 * ANCHOR_TIME
ProbeTimestamp(height) ==
    ZAdd(network.GENESIS_TIMESTAMP, ZMul(Z(FALSE, height), Z(FALSE, network.ANCHOR_TIME)))

Probe == coinbase_reward(network.STARTING_SUPPLY, network.ANCHOR_TIME,
                         network.NUM_BLOCKS_PER_EPOCH,
                         previous_timestamp, timestamp, block_height)

\* The probe at height 1, before the loop.
FirstProbe ==
    /\ fn = "idle"
    /\ pc = "start"
    /\ \E r \in {Probe} :
          /\ reward' = r
          /\ IF r.kind = "Ok"
             THEN /\ pc' = "loop"
                  /\ previous_reward' = r
                  /\ block_height' = MulLimb(block_height, 2)
                  /\ timestamp' = ProbeTimestamp(MulLimb(block_height, 2))
             ELSE /\ pc' = "panicked"
                  /\ UNCHANGED <<previous_reward, block_height, timestamp>>
    /\ UNCHANGED <<network, callVars, previous_timestamp>>

\* One turn of the loop: the probe, the assertion, the next height.
LoopProbe ==
    /\ pc = "loop"
    /\ Lt(block_height, estimated_block_height(network.ANCHOR_TIME, 10).val)
    /\ \E r \in {Probe} :
          /\ reward' = r
          /\ IF r.kind # "Ok"
             THEN /\ pc' = "panicked"
                  /\ UNCHANGED <<previous_reward, previous_timestamp, block_height,
                                 timestamp>>
             ELSE IF ~Le(r.val, previous_reward.val)
             THEN /\ pc' = "assert_failed"
                  /\ UNCHANGED <<previous_reward, previous_timestamp, block_height,
                                 timestamp>>
             ELSE /\ pc' = "loop"
                  /\ previous_reward' = r
                  /\ previous_timestamp' = timestamp
                  /\ block_height' = MulLimb(block_height, 2)
                  /\ timestamp' = ProbeTimestamp(MulLimb(block_height, 2))
    /\ UNCHANGED <<network, callVars>>

LoopExit ==
    /\ pc = "loop"
    /\ ~Lt(block_height, estimated_block_height(network.ANCHOR_TIME, 10).val)
    /\ pc' = "done"
    /\ UNCHANGED <<network, callVars, block_height, previous_timestamp, timestamp,
                   reward, previous_reward>>

Next ==
    \/ StakingReward
    \/ AnchorReward
    \/ CoinbaseReward
    \/ CoinbaseTarget
    \/ Retarget
    \/ ProofTarget
    \/ ProofTargets
    \/ TestAnchorReward
    \/ TestStakingReward
    \/ Return
    \/ FirstProbe
    \/ LoopProbe
    \/ LoopExit

Spec == Init /\ [][Next]_vars

-----------------------------------------------------------------------------
(* Properties                                                               *)

\* timestamp - previous_timestamp of the call made last, as a number (not
\* saturated), and the elapsed time max(timestamp - previous_timestamp, 1).
Interval ==
    IF fn = "coinbase_reward" THEN ZSub(args.timestamp, args.previous_timestamp)
    ELSE ZSub(args.block_timestamp, args.previous_block_timestamp)

Elapsed == ZMax(Interval, Int2Z(1))
AnchorTime == Z(FALSE, network.ANCHOR_TIME)
Slower == ZCmp(Interval, AnchorTime) > 0
Faster == ZCmp(Elapsed, AnchorTime) < 0
OnSchedule == Interval = AnchorTime

InTestRange(target) == Le(MinimumCoinbaseTarget, target) /\ Lt(target, U64Max)

\* C1: coinbase_target returns a value >= 2^10 - 1 = 1023 for every previous
\* target, every pair of timestamps and every network.
C1_TargetFloor ==
    fn = "coinbase_target" => ret.kind = "Ok" /\ Le(Sub(Pow2(10), Big(1)), ret.val)

\* A call with previous target 0 and a late block, which the floor lifts to 1023.
C1_Witness ==
    /\ fn = "coinbase_target"
    /\ args.previous_coinbase_target = <<>>
    /\ Slower
    /\ ret = Ok(Big(1023))

\* C2: a block interval longer than the anchor time makes coinbase_target
\* return a value strictly less than the previous target, for every previous
\* target in [2^10 - 1, u64::MAX), every such interval and every network.
C2_SlowerLowersTarget ==
    (fn = "coinbase_target" /\ InTestRange(args.previous_coinbase_target) /\ Slower)
        => ret.kind = "Ok" /\ Lt(ret.val, args.previous_coinbase_target)

\* C3: an elapsed time max(timestamp - previous_timestamp, 1) shorter than the
\* anchor time makes coinbase_target return a value strictly greater than the
\* previous target, for every previous target in [2^10 - 1, u64::MAX).
C3_FasterRaisesTarget ==
    (fn = "coinbase_target" /\ InTestRange(args.previous_coinbase_target) /\ Faster)
        => ret.kind = "Ok" /\ Lt(args.previous_coinbase_target, ret.val)

\* C4: when timestamp - previous_timestamp is exactly the anchor time, retarget
\* returns the previous value for either value of is_inverse, coinbase_target
\* returns a previous target >= 2^10 - 1 unchanged, and the proof target
\* derived from it is the one derived from the previous target.
C4_OnScheduleUnchanged ==
    /\ (fn = "retarget" /\ OnSchedule) => ret = Ok(args.previous_target)
    /\ (fn = "coinbase_target" /\ OnSchedule
            /\ Le(MinimumCoinbaseTarget, args.previous_coinbase_target))
          => ret = Ok(args.previous_coinbase_target)
    /\ (fn = "proof_targets" /\ OnSchedule
            /\ Le(MinimumCoinbaseTarget, args.previous_coinbase_target))
          => /\ ret.new_coinbase_target = args.previous_coinbase_target
             /\ ret.new_prover_target = ret.previous_prover_target

\* Proof targets derived after an on-schedule block for a target above the floor.
C4_Witness ==
    /\ fn = "proof_targets"
    /\ OnSchedule
    /\ args.previous_coinbase_target = Add(Pow2(40), Big(12345))
    /\ ret.new_prover_target = ShR(Add(Pow2(40), Big(12345)), 10)

\* The estimated block height at year 10 of the network.
HeightYear10 == estimated_block_height(network.ANCHOR_TIME, 10).val

\* C5: for every block height >= estimated_block_height(anchor_time, 10) and
\* every pair of timestamps, coinbase_reward returns Ok(0).
C5_RewardZeroAfterYear10 ==
    (fn = "coinbase_reward" /\ Le(HeightYear10, args.block_height)) => ret = Ok(<<>>)

\* C6: for every starting supply and every anchor time > 0, staking_reward,
\* anchor_reward and coinbase_reward finish with an Ok or an error value; none
\* of them aborts.
C6_NoAbort ==
    fn \in {"staking_reward", "anchor_reward", "coinbase_reward"}
        => ret.kind \in {"Ok", "Err"}

\* The worked scenario: previous target 1024, anchor time 10, 10 blocks per
\* epoch, previous timestamp 0.
Scenario(ts) ==
    /\ fn = "coinbase_target"
    /\ network.ANCHOR_TIME = Big(10)
    /\ network.NUM_BLOCKS_PER_EPOCH = Big(10)
    /\ args.previous_coinbase_target = Big(1024)
    /\ args.previous_block_timestamp = Int2Z(0)
    /\ args.block_timestamp = Int2Z(ts)

\* C7 as stated: (a) timestamp 10 gives 1024; (b) timestamp 20 gives integral
\* -1, fractional 0, multiplier 65536 and target 512; (c) timestamp 5 gives
\* integral 0, fractional 32768, multiplier 92681 and target 1449.
C7_ScenarioAsStated ==
    /\ Scenario(10) => ret = Ok(Big(1024))
    /\ Scenario(20) => /\ locals.integral = Int2Z(-1)
                       /\ locals.fractional = <<>>
                       /\ locals.fractional_multiplier = Big(65536)
                       /\ ret = Ok(Big(512))
    /\ Scenario(5) => /\ locals.integral = Int2Z(0)
                      /\ locals.fractional = Big(32768)
                      /\ locals.fractional_multiplier = Big(92681)
                      /\ ret = Ok(Big(1449))

\* C7 as amended: (a) as stated; (b) integral -1, fractional 0, multiplier
\* 65536 and a candidate of 512 from retarget, which coinbase_target lifts to
\* its floor 1023; (c) integral 0, fractional 32768, multiplier 92674 and
\* target 1448, greater than 1024.
C7_Scenario ==
    /\ Scenario(10) => ret = Ok(Big(1024))
    /\ Scenario(20) => /\ locals.integral = Int2Z(-1)
                       /\ locals.fractional = <<>>
                       /\ locals.fractional_multiplier = Big(65536)
                       /\ locals.out = Ok(Big(512))
                       /\ ret = Ok(Big(1023))
    /\ Scenario(5) => /\ locals.integral = Int2Z(0)
                      /\ locals.fractional = Big(32768)
                      /\ locals.fractional_multiplier = Big(92674)
                      /\ ret = Ok(Big(1448))
                      /\ Lt(Big(1024), ret.val)

\* Case (c) of the scenario, after the call.
C7_Witness == Scenario(5) /\ ret.kind = "Ok" /\ locals.shifts = Int2Z(-16)

RewardTest == fn \in {"test_anchor_reward", "test_staking_reward"}
AnchorAboveOne == Lt(Big(1), network.ANCHOR_TIME)
AllOk == ret.reward.kind = "Ok" /\ ret.larger_reward.kind = "Ok"
            /\ ret.smaller_reward.kind = "Ok"

\* C8 as stated: for every starting supply and anchor time > 1, the reward
\* with anchor time + 1 is strictly greater and the reward with anchor time - 1
\* strictly less, for anchor_reward and for staking_reward.
C8_StrictlyMonotone ==
    (RewardTest /\ AnchorAboveOne)
        => /\ AllOk
           /\ Lt(ret.reward.val, ret.larger_reward.val)
           /\ Lt(ret.smaller_reward.val, ret.reward.val)

\* C8 as amended: for every starting supply and anchor time > 1, each of the
\* three calls returns Ok exactly when its anchor time is at most the seconds
\* of a year, and those that return Ok are ordered, not always strictly:
\* smaller_reward <= reward <= larger_reward.
C8_Monotone ==
    (RewardTest /\ AnchorAboveOne)
        => /\ ret.smaller_reward.kind = "Ok"
                <=> Lt(network.ANCHOR_TIME, Big(SECONDS_IN_A_YEAR + 2))
           /\ ret.reward.kind = "Ok"
                <=> Lt(network.ANCHOR_TIME, Big(SECONDS_IN_A_YEAR + 1))
           /\ ret.larger_reward.kind = "Ok"
                <=> Lt(network.ANCHOR_TIME, Big(SECONDS_IN_A_YEAR))
           /\ (ret.smaller_reward.kind = "Ok" /\ ret.reward.kind = "Ok")
                => Le(ret.smaller_reward.val, ret.reward.val)
           /\ (ret.reward.kind = "Ok" /\ ret.larger_reward.kind = "Ok")
                => Le(ret.reward.val, ret.larger_reward.val)

\* The anchor rewards the test pins: 8, with 7 below and 9 above.
C8_Witness ==
    /\ fn = "test_anchor_reward"
    /\ ret.reward = Ok(Big(8))
    /\ ret.smaller_reward = Ok(Big(7))
    /\ ret.larger_reward = Ok(Big(9))

\* C9: along the probing schedule (height 1 at the genesis timestamp, then
\* doubled heights with timestamp = genesis + height * anchor time), the reward
\* of every probe below the height of year 10 is at most the reward of the
\* probe before it.
C9_ScheduleNonIncreasing ==
    [][(pc = "loop" /\ pc' \in {"loop", "assert_failed"})
          => Le(reward'.val, previous_reward.val)]_vars

\* The schedule of the network of the tests ran to its end through rewards
\* that went down from the first probe.
C9_Witness ==
    /\ pc = "done"
    /\ network.ANCHOR_TIME = Big(20)
    /\ block_height = Pow2(24)
    /\ Lt(<<>>, reward.val)
    /\ Lt(reward.val, Big(1000))

\* The product coinbase_reward decays: (H_Y10 - block_height) * anchor_reward.
UndecayedProduct ==
    Mul(Sub(HeightYear10, args.block_height),
        anchor_reward(network.STARTING_SUPPLY, network.ANCHOR_TIME).val)

\* C10: below the height of year 10 and with a non-zero product P, an interval
\* longer than the anchor time gives coinbase_reward <= P and an elapsed time
\* shorter than the anchor time gives coinbase_reward >= P, for every interval
\* and every network.
C10_RewardDirection ==
    (fn = "coinbase_reward" /\ HeightYear10 # <<>> /\ Lt(args.block_height, HeightYear10)
        /\ UndecayedProduct # <<>>)
        => /\ ret.kind = "Ok"
           /\ Slower => Le(ret.val, UndecayedProduct)
           /\ Faster => Le(UndecayedProduct, ret.val)

\* A call of retarget that got past the decomposition of the exponent.
RetargetShifted == fn = "retarget" /\ "shifts" \in DOMAIN locals

\* previous_value * fractional_multiplier, the candidate before the shift.
Candidate == Mul(args.previous_target, locals.fractional_multiplier)

\* previous_value * fractional_multiplier * 2^shift for a shift >= 0, capped
\* at u64::MAX.
ExactShlCapped ==
    IF Candidate = <<>> THEN <<>>
    ELSE IF Lt(locals.shifts.mag, Big(64))
    THEN MinB(ShL(Candidate, ToInt(locals.shifts.mag)), U64Max)
    ELSE U64Max

\* C11: in retarget with shift = integral - 16 >= 0, the result is never
\* smaller than previous_value * fractional_multiplier * 2^shift capped at
\* u64::MAX: an overflowing left shift saturates and drops no high bits.
C11_ShlSaturates ==
    (RetargetShifted /\ ~locals.shifts.neg)
        => ret.kind = "Ok" /\ Le(ExactShlCapped, ret.val)

\* floor(previous_value * fractional_multiplier / 2^(-shift)) for a shift < 0.
ExactShr ==
    IF Lt(locals.shifts.mag, Big(128))
    THEN ShR(Candidate, ToInt(locals.shifts.mag))
    ELSE <<>>

\* C12: in retarget with shift = integral - 16 < 0, the result is
\* max(floor(previous_value * fractional_multiplier / 2^(-shift)), 1) (under
\* the cap of u64::MAX), which is exactly 1 when -shift is 128 or more, 2^32
\* and above included: the shift amount is never narrowed.
C12_ShrExact ==
    (RetargetShifted /\ locals.shifts.neg)
        => /\ ret = Ok(MinB(MaxB(ExactShr, Big(1)), U64Max))
           /\ Le(Big(128), locals.shifts.mag) => ret = Ok(Big(1))

\* A run of retarget, called directly or by coinbase_target or coinbase_reward,
\* that got past the decomposition of the exponent.
RunShifted ==
    fn \in {"retarget", "coinbase_target", "coinbase_reward"} /\ "shifts" \in DOMAIN locals

\* C13: no assertion of retarget fails, for every previous value, pair of
\* timestamps, inverse flag and network: 0 <= fractional < 2^16, exponent ==
\* integral * 2^16 + fractional (negative exponents included), and the
\* clamped candidate is below 2^64 before the downcast.
C13_NoAssertionFails ==
    fn \in {"retarget", "coinbase_target", "coinbase_reward"}
        => /\ locals.out.kind = "Ok"
           /\ Lt(locals.out.val, Pow2(64))
           /\ RunShifted
                => /\ Lt(locals.fractional, Pow2(16))
                   /\ locals.exponent
                        = ZAdd(ZMul(locals.integral, Z(FALSE, Pow2(16))),
                               Z(FALSE, locals.fractional))

\* A run with a negative exponent that is no multiple of 2^16.
C13_Witness ==
    /\ fn = "retarget"
    /\ RunShifted
    /\ locals.exponent.neg
    /\ locals.fractional # <<>>
    /\ locals.integral.neg
    /\ ret.kind = "Ok"

\* The timestamp of the call is not after the previous one, and the previous
\* one has a successor in i64.
NotAfter ==
    /\ fn \in {"coinbase_target", "coinbase_reward"}
    /\ ZCmp(IF fn = "coinbase_reward" THEN args.timestamp ELSE args.block_timestamp,
            IF fn = "coinbase_reward" THEN args.previous_timestamp
            ELSE args.previous_block_timestamp) <= 0
    /\ ZCmp(IF fn = "coinbase_reward" THEN args.previous_timestamp
            ELSE args.previous_block_timestamp, I64Max) < 0

\* C14: for every timestamp <= previous_timestamp, however far back,
\* coinbase_target and coinbase_reward return exactly what they return for
\* timestamp = previous_timestamp + 1.
C14_ElapsedClamped ==
    /\ (NotAfter /\ fn = "coinbase_target")
          => ret = coinbase_target(network.ANCHOR_TIME, network.NUM_BLOCKS_PER_EPOCH,
                                   args.previous_coinbase_target,
                                   args.previous_block_timestamp,
                                   ZAdd(args.previous_block_timestamp, Int2Z(1)))
    /\ (NotAfter /\ fn = "coinbase_reward")
          => ret = coinbase_reward(network.STARTING_SUPPLY, network.ANCHOR_TIME,
                                   network.NUM_BLOCKS_PER_EPOCH,
                                   args.previous_timestamp,
                                   ZAdd(args.previous_timestamp, Int2Z(1)),
                                   args.block_height)

\* A timestamp further back than i64 can tell, with a target that moved.
C14_Witness ==
    /\ fn = "coinbase_target"
    /\ network.ANCHOR_TIME = Big(10)
    /\ args.previous_coinbase_target = Big(1024)
    /\ args.previous_block_timestamp = ZSub(I64Max, Int2Z(1))
    /\ args.block_timestamp = I64Min
    /\ locals.drift = Int2Z(9)
    /\ Lt(Big(1024), ret.val)

\* The network produces at least one block a year.
YearlyBlocks == Le(network.ANCHOR_TIME, Big(SECONDS_IN_A_YEAR))

\* max(H_Y10 - block_height, 0) * anchor_reward, computed without a width.
ExactProduct ==
    Mul(SaturatingSubU64(HeightYear10, args.block_height),
        anchor_reward(network.STARTING_SUPPLY, network.ANCHOR_TIME).val)

\* C15: with 1 <= anchor_time <= 31,536,000, staking_reward, anchor_reward and
\* coinbase_reward return Ok for every starting supply, block height and pair
\* of timestamps; max(H_Y10 - block_height, 0) * anchor_reward fits in u64 and
\* 'Anchor reward overflow' is never returned.
C15_NoOverflowError ==
    (YearlyBlocks /\ fn \in {"staking_reward", "anchor_reward", "coinbase_reward"})
        => /\ ret.kind = "Ok"
           /\ fn = "coinbase_reward"
                => /\ Le(ExactProduct, U64Max)
                   /\ ret.msg # "Anchor reward overflow"

\* The greatest product of the networks: the whole supply of u64::MAX spread
\* over the 10 blocks of 10 years, at height 0.
C15_Witness ==
    /\ fn = "coinbase_reward"
    /\ network.STARTING_SUPPLY = U64Max
    /\ network.ANCHOR_TIME = Big(SECONDS_IN_A_YEAR)
    /\ args.block_height = <<>>
    /\ Lt(Pow2(61), ExactProduct)
    /\ ret.kind = "Ok"

\* C16: coinbase_reward returns 0 if and only if the undecayed product
\* max(H_Y10 - block_height, 0) * anchor_reward is 0; whenever block_height <
\* H_Y10 and anchor_reward >= 1 the reward is at least 1, for every pair of
\* timestamps.
C16_ZeroIffProductZero ==
    fn = "coinbase_reward"
        => /\ ret = Ok(<<>>) <=> ExactProduct = <<>>
           /\ (Lt(args.block_height, HeightYear10)
                 /\ Le(Big(1), anchor_reward(network.STARTING_SUPPLY,
                                             network.ANCHOR_TIME).val))
                => ret.kind = "Ok" /\ Le(Big(1), ret.val)

=============================================================================
